---- MODULE Spec2Model ----
(***************************************************************************)
(* A model of pypiversion/main.py: one run of main() reads the            *)
(* configuration, loads the template, queries the index three times per   *)
(* configured package, builds the record map and the RSS items, renders   *)
(* the template and writes the YAML, HTML and feed artifacts.             *)
(*                                                                         *)
(* Text that the program inspects character by character (download URLs,  *)
(* timestamps) is a sequence of one-character strings; text it only        *)
(* copies or concatenates (names, versions) is a string.  md5 is kept as   *)
(* an uninterpreted digest of the exact text it is fed.  The local clock   *)
(* (datetime.now) and the UTC clock (datetime.utcnow) are one clock.       *)
(***************************************************************************)
EXTENDS Integers, Sequences, FiniteSets, TLC

VARIABLES
    fs,             \* which of the two input files can be read
    configuration,  \* the parsed configuration: files (keys present), packages
    index,          \* the answers the index has given so far, per package name
    clock,          \* position of the wall clock in Nows
    pc,             \* position of main()
    err,            \* the exception that ended the run, "" if none
    i,              \* position of the package loop in configuration.packages
    releases,       \* local: answer of package_releases
    urls,           \* local: answer of release_urls
    data,           \* local: answer of release_data
    packages,       \* local: the record map
    rss,            \* local: the feed object (lastBuildDate, items)
    output,         \* local: the rendered template
    disk,           \* content of the three artifact files
    written,        \* artifacts this run has written
    loaded,         \* inputs this run has loaded
    nqueries,       \* index queries this run has issued
    run,            \* 1 for the first run, 2 for a repeated run
    previous        \* content of the artifact files after the first run

vars == <<fs, configuration, index, clock, pc, err, i, releases, urls, data,
          packages, rss, output, disk, written, loaded, nqueries, run, previous>>

-----------------------------------------------------------------------------
(* Bounds of the model.                                                    *)

MaxPkgs == 2        \* longest configured package list
MaxUrls == 2        \* longest list release_urls answers

-----------------------------------------------------------------------------
(* The inputs: configurations, index answers, clock readings.              *)

PackageNames == {"alpha", "beta"}

OutputKeys == {"yaml", "html", "feed"}

ReleaseLists == {<<>>, <<"2.0.0", "1.0.0">>}

UrlWheel == <<"x", "/", "a", ".", "w", "h", "l">>
UrlSdist == <<"y", "/", "b", ".", "t", "g", "z">>
Urls == {UrlWheel, UrlSdist}

\* xmlrpclib.DateTime prints as YYYYMMDDTHH:MM:SS; None is the empty text
None == <<>>
Stamp == <<"2", "0", "2", "0", "0", "1", "0", "1", "T",
           "0", "6", ":", "0", "0", ":", "0", "0">>
UploadTimes == {None, Stamp}

UrlEntries == [url : Urls, upload_time : UploadTimes]

SeqsUpTo(S, n) == UNION {[1..k -> S] : k \in 0..n}

\* the program reads the upload time of the first entry only: the later
\* entries of an answer all carry one
UrlLists ==
    {u \in SeqsUpTo(UrlEntries, MaxUrls) :
        \A k \in 2..Len(u) : u[k].upload_time = Stamp}

NoData == [release_url |-> "", author |-> "", package_url |-> "", summary |-> ""]

ReleaseData(package, version) ==
    [release_url |-> "http://pypi/" \o package \o "/" \o version,
     author      |-> "author of " \o package,
     package_url |-> "http://pypi/" \o package,
     summary     |-> "summary of " \o package]

\* the clock readings a run can see, in increasing order
Nows == << [year |-> 2020, month |-> 1, day |-> 1, hour |-> 0, minute |-> 0, second |-> 0],
           [year |-> 2020, month |-> 1, day |-> 2, hour |-> 5, minute |-> 59, second |-> 59],
           [year |-> 2020, month |-> 3, day |-> 1, hour |-> 6, minute |-> 0, second |-> 0] >>

Clocks == 1..Len(Nows)

EmptyMap == [k \in {} |-> k]

NotAsked == [releases |-> {}, urls |-> {}, data |-> {}]

\* an answer of the index: a value, or a fault raised by the transport
Ok(v) == [fault |-> FALSE, value |-> v]
FaultOf(v) == [fault |-> TRUE, value |-> v]

\* the index answers a repeated question as it answered the first time
Answers(memo, fresh) == IF memo = {} THEN fresh ELSE memo

-----------------------------------------------------------------------------
(* Pure helpers of the loop body.                                          *)

endswith(s, suffix) ==
    /\ Len(s) >= Len(suffix)
    /\ SubSeq(s, Len(s) - Len(suffix) + 1, Len(s)) = suffix

\* 1-based position of the last "/" of p, 0 if there is none
rfind(p) ==
    LET at == {k \in 1..Len(p) : p[k] = "/"}
    IN  IF at = {} THEN 0 ELSE CHOOSE k \in at : \A j \in at : j <= k

basename(p) == SubSeq(p, rfind(p) + 1, Len(p))

ChooseUrlAlways(us) ==
    IF Len(us) > 1 THEN us[2].url ELSE us[1].url

ChooseUrl(us) ==
    IF endswith(us[1].url, <<".", "w", "h", "l">>) /\ Len(us) > 1
    THEN us[2].url
    ELSE us[1].url

FilenameOfFirst(us, url) == basename(us[1].url)

Filename(us, url) == basename(url)

DigitChars == <<"0", "1", "2", "3", "4", "5", "6", "7", "8", "9">>

Digit(c) == (CHOOSE d \in 1..10 : DigitChars[d] = c) - 1

RECURSIVE Number(_)
Number(s) ==
    IF s = <<>> THEN 0
    ELSE 10 * Number(SubSeq(s, 1, Len(s) - 1)) + Digit(s[Len(s)])

\* datetime.strptime(text, "%Y%m%dT%H:%M:%S")
strptime(s) ==
    [year   |-> Number(SubSeq(s, 1, 4)),
     month  |-> Number(SubSeq(s, 5, 6)),
     day    |-> Number(SubSeq(s, 7, 8)),
     hour   |-> Number(SubSeq(s, 10, 11)),
     minute |-> Number(SubSeq(s, 13, 14)),
     second |-> Number(SubSeq(s, 16, 17))]

RECURSIVE Padded(_, _)
Padded(n, width) ==
    IF width = 0 THEN ""
    ELSE Padded(n \div 10, width - 1) \o DigitChars[(n % 10) + 1]

\* datetime.strftime(t, "%Y-%m-%d %H:%M:%S")
strftime(t) ==
    Padded(t.year, 4) \o "-" \o Padded(t.month, 2) \o "-" \o Padded(t.day, 2)
        \o " " \o Padded(t.hour, 2) \o ":" \o Padded(t.minute, 2)
        \o ":" \o Padded(t.second, 2)

is_leap(y) == (y % 4 = 0) /\ ((y % 100 # 0) \/ (y % 400 = 0))

days_before_year(y) ==
    LET y1 == y - 1
    IN  y1 * 365 + (y1 \div 4) - (y1 \div 100) + (y1 \div 400)

days_in_month(y, m) ==
    IF m = 2 THEN (IF is_leap(y) THEN 29 ELSE 28)
    ELSE IF m \in {4, 6, 9, 11} THEN 30 ELSE 31

RECURSIVE days_before_month(_, _)
days_before_month(y, m) ==
    IF m = 1 THEN 0
    ELSE days_before_month(y, m - 1) + days_in_month(y, m - 1)

toordinal(t) == days_before_year(t.year) + days_before_month(t.year, t.month) + t.day

seconds_of_day(t) == t.second + t.minute * 60 + t.hour * 3600

\* a - b as a normalised timedelta: 0 <= seconds < 86400
timedelta(a, b) ==
    LET d == toordinal(a) - toordinal(b)
        s == seconds_of_day(a) - seconds_of_day(b)
    IN  [days |-> d + (s \div 86400), seconds |-> s % 86400]

DaysAgoByDate(now, upload_time) == toordinal(now) - toordinal(upload_time)

DaysAgo(now, upload_time) == timedelta(now, upload_time).days

md5_hexdigest(text) == <<"md5", text>>

GuidOfRecord(package, rec) ==
    md5_hexdigest(package \o "-" \o rec["version"] \o "-" \o ToString(rec["days_ago"]))

Guid(package, rec) ==
    md5_hexdigest(package \o "-" \o rec["version"])

RSSItem(package, rec) ==
    [title       |-> package \o " - " \o rec["version"],
     author      |-> rec["author"],
     link        |-> rec["release_url"],
     guid        |-> Guid(package, rec),
     description |-> rec["summary"],
     pubDate     |-> rec["upload_time"]]

AddItemFirst(items, item) == <<item>> \o items

AddItem(items, item) == Append(items, item)

RecordAlways(us, map, name, version) == (name :> ("version" :> version)) @@ map

\* an empty answer leaves the map alone; otherwise the record starts with the version
NewRecord(us, map, name, version) ==
    IF Len(us) = 0 THEN map ELSE (name :> ("version" :> version)) @@ map

RaisesNever(a) == FALSE

\* a fault of the transport is raised where the query is made
Raises(a) == a.fault

get_template_lazy == TRUE

get_template == fs.template

-----------------------------------------------------------------------------
(* The state after the interpreter has started main().                     *)

Init ==
    /\ fs \in [configuration : BOOLEAN, template : BOOLEAN]
    /\ configuration \in [files : SUBSET OutputKeys,
                          packages : SeqsUpTo(PackageNames, MaxPkgs)]
    /\ index = [p \in PackageNames |-> NotAsked]
    /\ clock \in Clocks
    /\ pc = "start"
    /\ err = ""
    /\ i = 1
    /\ releases = <<>>
    /\ urls = <<>>
    /\ data = NoData
    /\ packages = EmptyMap
    /\ rss = [lastBuildDate |-> 1, items |-> <<>>]
    /\ output = [packages |-> EmptyMap, timestamp |-> ""]
    /\ disk = EmptyMap
    /\ written = {}
    /\ loaded = {}
    /\ nqueries = 0
    /\ run = 1
    /\ previous = EmptyMap

inputs == <<fs, configuration, run, previous>>
locals == <<releases, urls, data, packages, rss, output>>

Abort(e) == pc' = "aborted" /\ err' = e

package == configuration.packages[i]

-----------------------------------------------------------------------------
(* The steps of main().                                                    *)

LoadConfiguration ==
    /\ pc = "start"
    /\ IF fs.configuration
       THEN pc' = "template" /\ loaded' = loaded \cup {"configuration"} /\ err' = err
       ELSE Abort("IOError") /\ loaded' = loaded
    /\ UNCHANGED <<inputs, locals, index, clock, i, disk, written, nqueries>>

GetTemplate ==
    /\ pc = "template"
    /\ IF get_template
       THEN pc' = "files" /\ loaded' = loaded \cup {"template"} /\ err' = err
       ELSE Abort("TemplateNotFound") /\ loaded' = loaded
    /\ UNCHANGED <<inputs, locals, index, clock, i, disk, written, nqueries>>

ReadFileNames ==
    /\ pc = "files"
    /\ IF {"feed", "yaml", "html"} \subseteq configuration.files
       THEN pc' = "rss" /\ err' = err
       ELSE Abort("KeyError")
    /\ UNCHANGED <<inputs, locals, index, clock, i, disk, written, loaded, nqueries>>

CreateRss ==
    /\ pc = "rss"
    /\ \E now \in Clocks :
        /\ now >= clock
        /\ clock' = now
        /\ rss' = [lastBuildDate |-> now, items |-> <<>>]
    /\ packages' = EmptyMap
    /\ i' = 1
    /\ pc' = "loop"
    /\ UNCHANGED <<inputs, index, err, releases, urls, data, output, disk, written,
                   loaded, nqueries>>

PackageReleases ==
    /\ pc = "loop"
    /\ i <= Len(configuration.packages)
    /\ \E a \in Answers(index[package].releases,
                        {FaultOf(<<>>)} \cup {Ok(r) : r \in ReleaseLists}) :
        /\ index' = [index EXCEPT ![package].releases = {a}]
        /\ nqueries' = nqueries + 1
        /\ IF Raises(a)
           THEN /\ Abort("Fault")
                /\ UNCHANGED <<i, releases>>
           ELSE /\ releases' = a.value
                /\ IF Len(a.value) > 0
                   THEN pc' = "urls" /\ i' = i
                   ELSE pc' = "loop" /\ i' = i + 1
                /\ err' = err
    /\ UNCHANGED <<inputs, clock, urls, data, packages, rss, output, disk, written, loaded>>

ReleaseUrls ==
    /\ pc = "urls"
    /\ \E a \in Answers(index[package].urls,
                        {FaultOf(<<>>)} \cup {Ok(u) : u \in UrlLists}) :
        /\ index' = [index EXCEPT ![package].urls = {a}]
        /\ nqueries' = nqueries + 1
        /\ IF Raises(a)
           THEN /\ Abort("Fault")
                /\ UNCHANGED <<i, urls, packages>>
           ELSE /\ urls' = a.value
                /\ err' = err
                /\ packages' = NewRecord(a.value, packages, package, releases[1])
                /\ IF Len(a.value) = 0
                   THEN pc' = "loop" /\ i' = i + 1
                   ELSE pc' = "data" /\ i' = i
    /\ UNCHANGED <<inputs, clock, releases, data, rss, output, disk, written, loaded>>

ReleaseDataQuery ==
    /\ pc = "data"
    /\ \E a \in Answers(index[package].data,
                        {FaultOf(NoData),
                         Ok(ReleaseData(package, packages[package]["version"]))}) :
        /\ index' = [index EXCEPT ![package].data = {a}]
        /\ nqueries' = nqueries + 1
        /\ IF Raises(a)
           THEN Abort("Fault") /\ data' = data
           ELSE pc' = "build" /\ err' = err /\ data' = a.value
    /\ UNCHANGED <<inputs, clock, i, releases, urls, packages, rss, output, disk,
                   written, loaded>>

BuildRecord ==
    /\ pc = "build"
    /\ \E now \in Clocks :
        /\ now >= clock
        /\ clock' = (IF urls[1].upload_time # None THEN now ELSE clock)
        /\ LET upload_time == strptime(urls[1].upload_time)
               url == ChooseUrl(urls)
               timed ==
                   IF urls[1].upload_time # None
                   THEN ("days_ago" :> DaysAgo(Nows[now], upload_time))
                        @@ ("upload_time" :> strftime(upload_time))
                   ELSE EmptyMap
               rec == ("release_url" :> data.release_url)
                      @@ ("author" :> data.author)
                      @@ ("url" :> url)
                      @@ ("package_url" :> data.package_url)
                      @@ ("filename" :> Filename(urls, url))
                      @@ ("summary" :> data.summary)
                      @@ timed
                      @@ packages[package]
           IN  /\ packages' = (package :> rec) @@ packages
               /\ IF "upload_time" \in DOMAIN rec
                  THEN /\ rss' = [rss EXCEPT !.items = AddItem(@, RSSItem(package, rec))]
                       /\ pc' = "loop"
                       /\ i' = i + 1
                       /\ err' = err
                  ELSE /\ Abort("KeyError")
                       /\ UNCHANGED <<rss, i>>
    /\ UNCHANGED <<inputs, index, releases, urls, data, output, disk, written, loaded,
                   nqueries>>

Render ==
    /\ pc = "loop"
    /\ i > Len(configuration.packages)
    /\ \E now \in Clocks :
        /\ now >= clock
        /\ clock' = now
        /\ output' = [packages |-> packages, timestamp |-> strftime(Nows[now])]
    /\ pc' = "yaml"
    /\ UNCHANGED <<inputs, index, err, i, releases, urls, data, packages, rss, disk,
                   written, loaded, nqueries>>

\* open(path, 'w') and write: the file is replaced, or the open fails
WriteArtifact(key, content, next) ==
    IF key \in configuration.files
    THEN \E ok \in BOOLEAN :
            IF ok
            THEN /\ disk' = (key :> content) @@ disk
                 /\ written' = written \cup {key}
                 /\ pc' = next
                 /\ err' = err
            ELSE /\ Abort("IOError")
                 /\ UNCHANGED <<disk, written>>
    ELSE /\ pc' = next
         /\ UNCHANGED <<err, disk, written>>

WriteYaml ==
    /\ pc = "yaml"
    /\ WriteArtifact("yaml", packages, "html")
    /\ UNCHANGED <<inputs, locals, index, clock, i, loaded, nqueries>>

WriteHtml ==
    /\ pc = "html"
    /\ WriteArtifact("html", output, "feed")
    /\ UNCHANGED <<inputs, locals, index, clock, i, loaded, nqueries>>

WriteFeed ==
    /\ pc = "feed"
    /\ WriteArtifact("feed", rss, "done")
    /\ UNCHANGED <<inputs, locals, index, clock, i, loaded, nqueries>>

Next ==
    \/ LoadConfiguration
    \/ GetTemplate
    \/ ReadFileNames
    \/ CreateRss
    \/ PackageReleases
    \/ ReleaseUrls
    \/ ReleaseDataQuery
    \/ BuildRecord
    \/ Render
    \/ WriteYaml
    \/ WriteHtml
    \/ WriteFeed

Spec == Init /\ [][Next]_vars

\* the scheduler starts the program again once a run has returned 0
Rerun ==
    /\ pc = "done"
    /\ run = 1
    /\ run' = 2
    /\ previous' = disk
    /\ pc' = "start"
    /\ i' = 1
    /\ releases' = <<>>
    /\ urls' = <<>>
    /\ data' = NoData
    /\ packages' = EmptyMap
    /\ rss' = [lastBuildDate |-> 1, items |-> <<>>]
    /\ output' = [packages |-> EmptyMap, timestamp |-> ""]
    /\ written' = {}
    /\ loaded' = {}
    /\ nqueries' = 0
    /\ UNCHANGED <<fs, configuration, index, clock, err, disk>>

NextTwice == Next \/ Rerun

SpecTwice == Init /\ [][NextTwice]_vars

-----------------------------------------------------------------------------
(* Vocabulary of the properties.                                           *)

pkgs == configuration.packages

Positions == 1..Len(pkgs)

\* the index has answered the questions about name this way
NoReleases(name) == index[name].releases = {Ok(<<>>)}

HasReleases(name) == \E a \in index[name].releases : ~a.fault /\ Len(a.value) > 0

NoUrls(name) == HasReleases(name) /\ index[name].urls = {Ok(<<>>)}

HasUrls(name) == HasReleases(name) /\ \E a \in index[name].urls : ~a.fault /\ Len(a.value) > 0

HasData(name) == HasUrls(name) /\ \E a \in index[name].data : ~a.fault

UrlsOf(name) == (CHOOSE a \in index[name].urls : TRUE).value

Skipped(name) == NoReleases(name) \/ NoUrls(name)

ItemsOf(name) ==
    {k \in 1..Len(rss.items) :
        \E v \in {"1.0.0", "2.0.0"} : rss.items[k].title = name \o " - " \o v}

AfterLoop == pc \in {"yaml", "html", "feed", "done"} \/ (pc = "loop" /\ i > Len(pkgs))

\* the loop has just finished position i - 1 by building its record
JustBuilt == pc = "loop" /\ i > 1 /\ pkgs[i - 1] \in DOMAIN packages

IsWheel(u) ==
    /\ Len(u) >= 4
    /\ u[Len(u) - 3] = "." /\ u[Len(u) - 2] = "w" /\ u[Len(u) - 1] = "h" /\ u[Len(u)] = "l"

\* f is the part of u after its last "/", the whole of u if it has none
IsLastSegment(f, u) ==
    /\ \A k \in 1..Len(f) : f[k] # "/"
    /\ Len(f) <= Len(u)
    /\ \A k \in 1..Len(f) : f[k] = u[Len(u) - Len(f) + k]
    /\ (Len(f) < Len(u) => u[Len(u) - Len(f)] = "/")

\* seconds from b to a
SecondsBetween(a, b) ==
    (toordinal(a) - toordinal(b)) * 86400 + (seconds_of_day(a) - seconds_of_day(b))

Truncated(x, d) == IF x >= 0 THEN x \div d ELSE -((-x) \div d)

-----------------------------------------------------------------------------
(* C1: a package whose release list or URL list is empty gets no record    *)
(* and no feed item; skipping it takes the loop to the next package and    *)
(* changes neither the records nor the feed; the run never aborts at such  *)
(* a package, and every configured package has been passed when the        *)
(* artifacts are written.                                                  *)

C1_SkipState ==
    /\ \A k \in Positions :
          (k < i /\ Skipped(pkgs[k])) =>
              (pkgs[k] \notin DOMAIN packages /\ ItemsOf(pkgs[k]) = {})
    /\ (pc = "aborted" /\ nqueries > 0 /\ i <= Len(pkgs)) => ~Skipped(pkgs[i])
    /\ pc \in {"yaml", "html", "feed", "done"} => i = Len(pkgs) + 1

C1_SkipStep ==
    (/\ i <= Len(pkgs)
     /\ \/ pc = "loop" /\ index'[pkgs[i]].releases = {Ok(<<>>)}
        \/ pc = "urls" /\ index'[pkgs[i]].urls = {Ok(<<>>)})
    => (pc' = "loop" /\ i' = i + 1 /\ packages' = packages /\ rss' = rss /\ err' = "")

C1_Skipped == [](C1_SkipState) /\ [][C1_SkipStep]_vars

\* a package without URLs was skipped, the other got its record, all was written
C1_Witness ==
    /\ pc = "done"
    /\ written = OutputKeys
    /\ \E k \in Positions : NoUrls(pkgs[k])
    /\ \E k \in Positions : pkgs[k] \in DOMAIN packages /\ Len(rss.items) = 1

-----------------------------------------------------------------------------
(* C2: a package with releases and URLs whose first URL carries no upload  *)
(* time does not abort the run: its record is produced without             *)
(* upload_time and days_ago and its feed item is appended.                 *)

NoTimestamp(name) == HasData(name) /\ UrlsOf(name)[1].upload_time = None

C2_NoTimestampTolerated ==
    \A k \in Positions :
        NoTimestamp(pkgs[k]) =>
            /\ ~(pc = "aborted" /\ err = "KeyError" /\ i = k)
            /\ k < i =>
                /\ pkgs[k] \in DOMAIN packages
                /\ {"upload_time", "days_ago"} \cap DOMAIN packages[pkgs[k]] = {}
                /\ ItemsOf(pkgs[k]) # {}

-----------------------------------------------------------------------------
(* C3: each of the three output paths may be absent from the              *)
(* configuration: the run completes and writes exactly the artifacts whose *)
(* paths are present.                                                      *)

C3_OutputsOptional ==
    /\ ~(pc = "aborted" /\ err = "KeyError" /\ nqueries = 0)
    /\ pc = "done" => written = configuration.files

-----------------------------------------------------------------------------
(* C4: the record's url is the second URL when the first ends in .whl and  *)
(* a second exists, and the first URL in every other case; between two     *)
(* iterations a package with releases and URLs that the loop has passed    *)
(* has its record with its url.                                            *)

C4_UrlChoice ==
    /\ \A name \in DOMAIN packages :
          "url" \in DOMAIN packages[name] =>
              LET us == UrlsOf(name)
                  url == packages[name]["url"]
              IN  /\ (IsWheel(us[1].url) /\ Len(us) >= 2) => url = us[2].url
                  /\ ~IsWheel(us[1].url) => url = us[1].url
                  /\ Len(us) = 1 => url = us[1].url
    /\ \A k \in Positions :
          (k < i /\ HasUrls(pkgs[k]) /\ (pc = "loop" \/ AfterLoop)) =>
              (pkgs[k] \in DOMAIN packages /\ "url" \in DOMAIN packages[pkgs[k]])

\* one record kept its lone wheel, another had its wheel replaced
C4_Witness ==
    /\ pc = "done"
    /\ \E name \in DOMAIN packages :
          /\ Len(UrlsOf(name)) = 1
          /\ packages[name]["url"] = UrlWheel
    /\ \E name \in DOMAIN packages :
          /\ Len(UrlsOf(name)) = 2
          /\ UrlsOf(name)[1].url = UrlWheel
          /\ packages[name]["url"] = UrlSdist

-----------------------------------------------------------------------------
(* C5: at the end of the loop the feed holds exactly one item per package  *)
(* that has a record, in configuration order, and as many items as there   *)
(* are records, for any configured package list.                           *)

Recorded == SelectSeq(pkgs, LAMBDA name : name \in DOMAIN packages)

TitleOf(name) == name \o " - " \o packages[name]["version"]

C5_OneItemPerRecord ==
    AfterLoop =>
        /\ Len(rss.items) = Cardinality(DOMAIN packages)
        /\ \A name \in DOMAIN packages : Cardinality(ItemsOf(name)) = 1
        /\ \A a, b \in 1..Len(rss.items) :
              a < b => \E k, l \in Positions :
                          /\ k < l
                          /\ rss.items[a].title = TitleOf(pkgs[k])
                          /\ rss.items[b].title = TitleOf(pkgs[l])

(* C5, amended: at the end of the loop the feed holds one item per         *)
(* configured occurrence of a package that has a record, in configuration  *)
(* order; when no name is configured twice that is exactly one item per    *)
(* record, and as many items as records.                                   *)

NoRepeats == \A k, l \in Positions : pkgs[k] = pkgs[l] => k = l

C5_OneItemPerOccurrence ==
    AfterLoop =>
        /\ Len(rss.items) = Len(Recorded)
        /\ \A k \in 1..Len(rss.items) : rss.items[k].title = TitleOf(Recorded[k])
        /\ NoRepeats =>
              /\ Len(rss.items) = Cardinality(DOMAIN packages)
              /\ \A name \in DOMAIN packages : Cardinality(ItemsOf(name)) = 1

\* two different packages, both recorded, in configuration order
C5_Witness ==
    /\ AfterLoop
    /\ Len(pkgs) = 2
    /\ pkgs[1] # pkgs[2]
    /\ Len(rss.items) = 2
    /\ rss.items[1].title = TitleOf(pkgs[1])
    /\ rss.items[2].title = TitleOf(pkgs[2])

-----------------------------------------------------------------------------
(* C6: a query that fails aborts the run at that point with no artifact    *)
(* written, no artifact is written once the run has aborted, and every     *)
(* query is made before the first artifact write.                          *)

AnswerGiven ==
    CASE pc = "loop" -> index'[pkgs[i]].releases
      [] pc = "urls" -> index'[pkgs[i]].urls
      [] pc = "data" -> index'[pkgs[i]].data
      [] OTHER -> {}

C6_FaultStep ==
    /\ nqueries' > nqueries =>
          /\ written = {} /\ written' = {}
          /\ (\E a \in AnswerGiven : a.fault) => (pc' = "aborted" /\ err' = "Fault")
    /\ pc = "aborted" => (written' = written /\ disk' = disk)

C6_FaultAborts ==
    /\ []((pc = "aborted" /\ err = "Fault") => (written = {} /\ disk = EmptyMap))
    /\ [][C6_FaultStep]_vars

\* the third query of the second package failed
C6_Witness ==
    /\ pc = "aborted"
    /\ err = "Fault"
    /\ i = 2
    /\ nqueries >= 5
    /\ written = {}

-----------------------------------------------------------------------------
(* C7: days_ago is non-negative and equals the difference between the      *)
(* current UTC time and the upload time truncated to whole days, also for  *)
(* an upload time later than the current time.                             *)

Elapsed(name) ==
    SecondsBetween(Nows[clock], strptime(UrlsOf(name)[1].upload_time))

C7_DaysAgoTruncated ==
    (JustBuilt /\ "days_ago" \in DOMAIN packages[pkgs[i - 1]]) =>
        LET days_ago == packages[pkgs[i - 1]]["days_ago"]
        IN  /\ days_ago >= 0
            /\ days_ago = Truncated(Elapsed(pkgs[i - 1]), 86400)

(* C7, amended: days_ago is the difference floored to whole days; it is    *)
(* non-negative and equal to the truncated difference exactly when the     *)
(* upload time is not later than the current time, and negative otherwise. *)

C7_DaysAgoFloored ==
    (JustBuilt /\ "days_ago" \in DOMAIN packages[pkgs[i - 1]]) =>
        LET days_ago == packages[pkgs[i - 1]]["days_ago"]
            elapsed == Elapsed(pkgs[i - 1])
        IN  /\ days_ago * 86400 <= elapsed
            /\ elapsed < (days_ago + 1) * 86400
            /\ elapsed >= 0 => (days_ago >= 0 /\ days_ago = Truncated(elapsed, 86400))
            /\ elapsed < 0 => days_ago < 0

\* one record built before its upload time, the next sixty days after
C7_Witness ==
    /\ JustBuilt
    /\ i = 3
    /\ pkgs[1] # pkgs[2]
    /\ \A k \in 1..2 :
          pkgs[k] \in DOMAIN packages /\ "days_ago" \in DOMAIN packages[pkgs[k]]
    /\ packages[pkgs[1]]["days_ago"] = -1
    /\ packages[pkgs[2]]["days_ago"] = 60

-----------------------------------------------------------------------------
(* C8: a second run against the same configuration and the same index      *)
(* answers, at another time, yields the same records and the same feed     *)
(* items.                                                                  *)

SecondRunDone == run = 2 /\ pc = "done"

C8_SameSnapshot ==
    SecondRunDone =>
        /\ disk["yaml"] = previous["yaml"]
        /\ disk["feed"].items = previous["feed"].items

(* C8, amended: the records agree in every field but days_ago, which       *)
(* follows the clock; the feed items agree in every field, and items of    *)
(* one title carry one guid.                                               *)

C8_SameButDaysAgo ==
    SecondRunDone =>
        LET new == disk["yaml"]
            old == previous["yaml"]
        IN  /\ DOMAIN new = DOMAIN old
            /\ \A name \in DOMAIN new :
                  /\ DOMAIN new[name] = DOMAIN old[name]
                  /\ \A f \in DOMAIN new[name] \ {"days_ago"} : new[name][f] = old[name][f]
            /\ disk["feed"].items = previous["feed"].items
            /\ \A a \in 1..Len(disk["feed"].items), b \in 1..Len(previous["feed"].items) :
                  disk["feed"].items[a].title = previous["feed"].items[b].title
                      => disk["feed"].items[a].guid = previous["feed"].items[b].guid

\* the second run ran at a later time and found another days_ago
C8_Witness ==
    /\ SecondRunDone
    /\ disk["feed"].lastBuildDate # previous["feed"].lastBuildDate
    /\ \E name \in DOMAIN disk["yaml"] :
          /\ "days_ago" \in DOMAIN disk["yaml"][name]
          /\ disk["yaml"][name]["days_ago"] # previous["yaml"][name]["days_ago"]

-----------------------------------------------------------------------------
(* C9: filename is the final path segment of the record's final url, the   *)
(* one chosen after the wheel substitution.                                *)

C9_FilenameOfFinalUrl ==
    \A name \in DOMAIN packages :
        "filename" \in DOMAIN packages[name] =>
            LET us == UrlsOf(name)
                rec == packages[name]
            IN  /\ IsLastSegment(rec["filename"], rec["url"])
                /\ (IsWheel(us[1].url) /\ Len(us) >= 2) =>
                      IsLastSegment(rec["filename"], us[2].url)

\* a wheel was replaced by a source archive and the filename follows
C9_Witness ==
    \E name \in DOMAIN packages :
        /\ "filename" \in DOMAIN packages[name]
        /\ Len(UrlsOf(name)) = 2
        /\ UrlsOf(name)[1].url = UrlWheel
        /\ UrlsOf(name)[2].url = UrlSdist
        /\ packages[name]["filename"] = <<"b", ".", "t", "g", "z">>

-----------------------------------------------------------------------------
(* C10: the configuration and the template are loaded before the first     *)
(* query; when either cannot be read the run aborts with no query issued   *)
(* and no artifact written.                                                *)

C10_LoadBeforeQuery ==
    /\ (nqueries > 0 \/ written # {}) =>
          (loaded = {"configuration", "template"} /\ fs.configuration /\ fs.template)
    /\ (~fs.configuration \/ ~fs.template) =>
          (nqueries = 0 /\ written = {} /\ pc \in {"start", "template", "aborted"})

\* packages are configured, the template is missing, the run has aborted
C10_Witness ==
    /\ fs.configuration
    /\ ~fs.template
    /\ pkgs # <<>>
    /\ pc = "aborted"
    /\ err = "TemplateNotFound"
    /\ nqueries = 0

====
